---------------------------- MODULE Spec2Model ----------------------------
(***************************************************************************)
(* Model of notebook/nbconvert/handlers.py: the two tornado handlers that  *)
(* expose nbconvert as HTTP routes.                                        *)
(*                                                                         *)
(*   NbconvertFileHandler  GET/POST /nbconvert/<format>/<path>             *)
(*   NbconvertPostHandler  POST     /nbconvert/<format>                    *)
(*                                                                         *)
(* One behaviour of the model is one request: Init is the handler object   *)
(* constructed for a request, every action is one step of the handler     *)
(* code, in program order, and pc = "done" is the request after its        *)
(* response.  The collaborators (nbconvert, the contents manager) are      *)
(* black boxes: each call draws its outcome from a small set.              *)
(*                                                                         *)
(* Strings the code computes on (names, file names) are sequences of       *)
(* one-character strings; an optional value is a sequence of length 0      *)
(* (None / missing key / unset header) or 1.                               *)
(***************************************************************************)
EXTENDS Integers, Sequences, FiniteSets

VARIABLES
    route,          \* "file" (NbconvertFileHandler) or "post" (NbconvertPostHandler)
    format,         \* the format identifier of the URL
    method,         \* "GET" or "POST"
    download,       \* the request's 'download' argument, optional
    body,           \* the decoded JSON body (get_json_body), optional
    storage,        \* file route: what the contents manager holds at the path, optional
    pc,             \* position in the handler
    config,         \* the config handed to get_exporter
    content,        \* call_nbconvert's content argument, optional
    exporter,       \* the exporter get_exporter returned, optional
    model,          \* file route: contents_manager.get(path); optional
    name,           \* the local variable name of both handlers
    nb,             \* the document handed to from_notebook_node, optional
    resource_dict,  \* the resources argument of from_notebook_node, optional
    calls,          \* the from_notebook_node calls made, in order
    output,         \* conversion result: primary payload, optional
    resources,      \* conversion result: resources map, optional
    headers,        \* response headers set so far
    responses,      \* the responses produced, in order
    engine_fault    \* where the conversion engine raised, and what

vars == << route, format, method, download, body, storage, pc, config, content, exporter, model,
           name, nb, resource_dict, calls, output, resources, headers,
           responses, engine_fault >>

---------------------------------------------------------------------------
(* Bounds *)

MaxNameLen == 3
MaxOutputs == 2

None == << >>
Some(x) == << x >>

Chars == {"a", ".", "/"}

RECURSIVE StringsUpTo(_)
StringsUpTo(n) ==
    IF n = 0 THEN { << >> }
    ELSE LET S == StringsUpTo(n - 1)
         IN  S \cup { Append(s, c) : s \in { t \in S : Len(t) = n - 1 }, c \in Chars }

Names == StringsUpTo(MaxNameLen)

\* names the contents manager gives: non-empty base names
ModelNames == { n \in Names : n # << >> /\ \A i \in 1..Len(n) : n[i] # "/" }

---------------------------------------------------------------------------
(* Python string helpers, as the library computes them *)

Max(S) == CHOOSE x \in S : \A y \in S : y <= x

\* str.rfind(ch): 0-based index of the last occurrence, -1 when there is none
rfind(s, ch) ==
    LET I == { i \in 1..Len(s) : s[i] = ch }
    IN  IF I = {} THEN -1 ELSE Max(I) - 1

\* s[:end] with Python's treatment of a negative end
SliceTo(s, end) ==
    LET e == IF end < 0 THEN (IF Len(s) + end < 0 THEN 0 ELSE Len(s) + end)
             ELSE (IF end > Len(s) THEN Len(s) ELSE end)
    IN  SubSeq(s, 1, e)

\* s[start:]
SliceFrom(s, start) == SubSeq(s, start + 1, Len(s))

\* os.path.splitext (posixpath / genericpath._splitext with sep "/", extsep ".")
splitext(p) ==
    LET sepIndex == rfind(p, "/")
        extSepIndex == rfind(p, ".")
    IN  IF /\ extSepIndex > sepIndex
           /\ \E k \in (sepIndex + 1)..(extSepIndex - 1) : p[k + 1] # "."
        THEN << SliceTo(p, extSepIndex), SliceFrom(p, extSepIndex) >>
        ELSE << p, << >> >>


\* str.lower() on the values the 'download' argument takes in the model
lower(s) == IF s \in {"True", "TRUE", "true"} THEN "true" ELSE s

\* tornado.escape.url_escape on the model's alphabet: "/" is percent-encoded
RECURSIVE url_escape(_)
url_escape(s) ==
    IF s = << >> THEN << >>
    ELSE (IF Head(s) = "/" THEN << "%", "2", "F" >> ELSE << Head(s) >>)
         \o url_escape(Tail(s))

\* ipython_genutils.py3compat.cast_bytes(s, 'utf-8'): text is encoded, bytes pass
cast_bytes(s) == [type |-> "bytes", val |-> s.val]

---------------------------------------------------------------------------
(* Values of the request and of the collaborators *)

Formats == {"html", "nosuch"}
\* the formats nbconvert has an exporter for
Registered == {"html"}

DownloadArgs == {None, Some("true"), Some("True"), Some("false")}

\* self.config, and a config after Config.merge
AmbientConfig == {"ambient"}
merge(c, overrides) == c \cup overrides

\* JSON values: a string carries its text, an object (dict) its keys
JsonStr(t) == [type |-> "str", val |-> t]
JsonDict(keys) == [type |-> "dict", val |-> keys]

\* json.loads: a TypeError for a non-string argument, a ValueError for text
\* that is not JSON, the decoded object otherwise
json_loads(v) ==
    IF v.type # "str" THEN [exc |-> "TypeError", val |-> JsonDict({})]
    ELSE IF v.val = "{}" THEN [exc |-> "none", val |-> JsonDict({})]
    ELSE IF v.val = "{\"o\": 1}" THEN [exc |-> "none", val |-> JsonDict({"o"})]
    ELSE [exc |-> "ValueError", val |-> JsonDict({})]

\* dict.get(key, default) on an optional field
get(field, default) == IF field = None THEN default ELSE field[1]

\* notebook documents: where they come from and their nbformat major version
Notebook(origin, v) == [origin |-> origin, nbformat |-> v]
InlineNotebooks == { Notebook("inline", v) : v \in {3, 4} }
StoredNotebook == Notebook("stored", 4)

\* json.dumps(notebook) and nbformat.reads(text, as_version=4): the document is
\* serialised, parsed back and converted to nbformat 4
json_dumps(doc) == [type |-> "str", doc |-> doc]
reads(text) == Notebook(text.doc.origin, 4)
\* nbformat.from_dict: a NotebookNode of the same document, no conversion
from_dict(doc) == doc

\* bodies of POST /nbconvert/<format>/<path>
FileBodies ==
    [ config   : {None} \cup { Some(JsonStr(t)) : t \in {"{}", "{\"o\": 1}", "not json"} },
      notebook : {None} \cup { Some(n) : n \in InlineNotebooks } ]

\* bodies of POST /nbconvert/<format>
PostBodies ==
    [ name    : {None} \cup { Some(n) : n \in Names },
      content : {None} \cup { Some(n) : n \in InlineNotebooks } ]

DefaultName == << "n", "o", "t", "e", "b", "o", "o", "k", ".", "i", "p", "y", "n", "b" >>

\* the content of a stored object that is no notebook document
OtherContent == [origin |-> "stored", nbformat |-> 0]

\* what contents_manager.get(path) returns
ContentsModels ==
    { [type |-> t, name |-> n, last_modified |-> "t1",
       content |-> IF t = "notebook" THEN Some(StoredNotebook) ELSE Some(OtherContent)]
      : t \in {"notebook", "file", "directory"}, n \in ModelNames }

\* datetime.strftime(text.date_format)
strftime(t) == << "formatted", t >>

\* what from_notebook_node returns
Payloads == { [type |-> t, val |-> "out"] : t \in {"str", "bytes"} }
OutputExtensions == { << ".", "t" >>, << >> }
Data == { [type |-> "bytes", val |-> v] : v \in {"out", "png"} }

\* file names the exporter may give its auxiliary outputs: the primary
\* output's own file name, and names under a directory
OutputKeys(primary) == {primary, << "a", "/", "a" >>, << "a", "/", "." >>}

\* the 'outputs' entry of the resources: missing, or a dict filename -> bytes
OutputsOptions(primary) ==
    {None} \cup
    { Some(d) : d \in UNION { [K -> Data] : K \in { K \in SUBSET OutputKeys(primary) :
                                                     Cardinality(K) <= MaxOutputs } } }

MimeTypes == {"", "text/html"}

---------------------------------------------------------------------------
(* Responses *)

NoHeaders == [ContentType |-> None, ContentDisposition |-> None, LastModified |-> None]

set_header(h, key, value) == [h EXCEPT ![key] = Some(value)]

\* an exception leaving the handler: tornado answers web.HTTPError with its
\* status code and every other exception with 500, on a cleared response
HTTPError(status) == [status |-> status, exc |-> "HTTPError"]
Uncaught(exc) == [status |-> 500, exc |-> exc]

ErrorResponse(err) ==
    [kind |-> "error", status |-> err.status, exc |-> err.exc, body |-> [type |-> "none"]]
RedirectResponse ==
    [kind |-> "redirect", status |-> 302, exc |-> "none", body |-> [type |-> "none"]]
\* handler.finish(chunk)
finish(kind, chunk) ==
    [kind |-> kind, status |-> 200, exc |-> "none", body |-> chunk]


---------------------------------------------------------------------------
(* get_exporter and respond_zip *)

\* what nbconvert's get_exporter(format) does: the exporter class for a
\* registered format, unless loading it fails; KeyError for any other format
LookupOutcomes(fmt) == IF fmt \in Registered THEN {"ok", "RuntimeError"} ELSE {"KeyError"}

\* get_exporter(format, **kwargs): imported, looked_up and constructed are the
\* outcomes of the import, of nbconvert's get_exporter(format) and of
\* Exporter(**kwargs); mime is the output_mimetype of the exporter built
get_exporter(imported, looked_up, constructed, kwargs, mime) ==
    IF imported # "ok"
    THEN [raised |-> Some(HTTPError(500)), fault |-> << "import", imported >>,
          exporter |-> None]
    ELSE IF looked_up = "KeyError"
    THEN [raised |-> Some(HTTPError(404)), fault |-> << "lookup", looked_up >>,
          exporter |-> None]
    ELSE IF looked_up # "ok"
    THEN [raised |-> Some(Uncaught(looked_up)), fault |-> << "lookup", looked_up >>,
          exporter |-> None]
    ELSE IF constructed # "ok"
    THEN [raised |-> Some(HTTPError(500)), fault |-> << "construct", constructed >>,
          exporter |-> None]
    ELSE [raised |-> None, fault |-> << >>,
          exporter |-> Some([config |-> kwargs, output_mimetype |-> mime])]

\* zipf.writestr(filename, data) for every item of output_files
RECURSIVE WriteAll(_, _, _)
WriteAll(filelist, keys, output_files) ==
    IF keys = {} THEN filelist
    ELSE LET filename == CHOOSE k \in keys : TRUE
         IN  WriteAll(Append(filelist, [name |-> filename, data |-> output_files[filename]]),
                      keys \ {filename}, output_files)

\* faulty variant: an archive that keeps one entry per file name
ZipFile_one_per_name(nm, out, res, output_files) ==
    LET output_filename == splitext(nm)[1] \o res.output_extension
    IN  IF output_filename \in DOMAIN output_files
        THEN WriteAll(<< >>, DOMAIN output_files, output_files)
        ELSE WriteAll(<< [name |-> output_filename, data |-> cast_bytes(out)] >>,
                      DOMAIN output_files, output_files)

\* the archive respond_zip builds
ZipFile(nm, out, res, output_files) ==
    LET output_filename == splitext(nm)[1] \o res.output_extension
    IN  WriteAll(<< [name |-> output_filename, data |-> cast_bytes(out)] >>,
                 DOMAIN output_files, output_files)

\* the headers and the finished response of respond_zip's zip path
ZipResponse(hdrs, resps, nm, out, res, output_files, ret) ==
    LET zip_filename == splitext(nm)[1] \o << ".", "z", "i", "p" >>
        h1 == set_header(hdrs, "ContentDisposition",
                         [type |-> "attachment", filename |-> url_escape(zip_filename)])
        h2 == set_header(h1, "ContentType", [mime |-> "application/zip", charset |-> ""])
        buffer == [type |-> "zip", filelist |-> ZipFile(nm, out, res, output_files)]
    IN  [ret |-> ret, headers |-> h2,
         responses |-> Append(resps, finish("zip", buffer))]

\* faulty variant: the zip path finishes the response and falls off without True
respond_zip_no_return(hdrs, resps, nm, out, res) ==
    LET output_files == get(res.outputs, << >>)
    IN  IF res.outputs = None \/ DOMAIN output_files = {}
        THEN [ret |-> FALSE, headers |-> hdrs, responses |-> resps]
        ELSE ZipResponse(hdrs, resps, nm, out, res, output_files, FALSE)

\* faulty variant: only a missing outputs entry skips the zip, an empty one does not
respond_zip_none_only(hdrs, resps, nm, out, res) ==
    LET output_files == get(res.outputs, << >>)
    IN  IF res.outputs = None
        THEN [ret |-> FALSE, headers |-> hdrs, responses |-> resps]
        ELSE ZipResponse(hdrs, resps, nm, out, res, output_files, TRUE)

\* respond_zip(handler, name, output, resources): the handler's headers and
\* responses after the call, and the value returned
respond_zip(hdrs, resps, nm, out, res) ==
    LET output_files == get(res.outputs, << >>)
    IN  IF res.outputs = None \/ DOMAIN output_files = {}
        THEN [ret |-> FALSE, headers |-> hdrs, responses |-> resps]
        ELSE ZipResponse(hdrs, resps, nm, out, res, output_files, TRUE)

\* set_attachment_header(filename)
set_attachment_header(hdrs, filename) ==
    set_header(hdrs, "ContentDisposition", [type |-> "attachment", filename |-> filename])

\* the raw path's MIME type header: set when exporter.output_mimetype is truthy
set_mimetype(hdrs, exp) ==
    IF exp.output_mimetype # ""
    THEN set_header(hdrs, "ContentType", [mime |-> exp.output_mimetype, charset |-> "utf-8"])
    ELSE hdrs


---------------------------------------------------------------------------
(* The handlers *)

Init ==
    /\ route \in {"file", "post"}
    /\ format \in Formats
    /\ method \in (IF route = "file" THEN {"GET", "POST"} ELSE {"POST"})
    /\ download \in DownloadArgs
    /\ body \in (IF method = "GET" THEN {None}
                 ELSE IF route = "file" THEN { Some(b) : b \in FileBodies }
                 ELSE { Some(b) : b \in PostBodies })
    /\ storage \in (IF route = "file" THEN {None} \cup { Some(m) : m \in ContentsModels }
                    ELSE {None})
    /\ pc = "start"
    /\ config = {}
    /\ content = None
    /\ exporter = None
    /\ model = None
    /\ name = << >>
    /\ nb = None
    /\ resource_dict = None
    /\ calls = << >>
    /\ output = None
    /\ resources = None
    /\ headers = NoHeaders
    /\ responses = << >>
    /\ engine_fault = << >>

\* an exception leaves the handler: the framework sends the error response
SendError(err) ==
    /\ responses' = Append(responses, ErrorResponse(err))
    /\ headers' = NoHeaders
    /\ pc' = "done"

\* the notebook title of the path-based route
nb_title(nm) == splitext(nm)[1]

\* the notebook title of the submit-by-body route
post_title(nm) == SliceTo(nm, rfind(nm, "."))

\* NbconvertFileHandler.get
FileHandlerGet ==
    /\ pc = "start" /\ route = "file" /\ method = "GET"
    /\ config' = AmbientConfig
    /\ content' = None
    /\ pc' = "get_exporter"
    /\ UNCHANGED << route, format, method, download, body, storage, exporter, model, name, nb,
                    resource_dict, calls, output, resources, headers, responses,
                    engine_fault >>

\* the value NbconvertFileHandler.post hands to json.loads
post_config(json_upload) == get(json_upload.config, JsonDict({}))

\* NbconvertFileHandler.post
FileHandlerPost ==
    /\ pc = "start" /\ route = "file" /\ method = "POST"
    /\ LET c == AmbientConfig
           json_upload == body[1]
           json_config == json_loads(post_config(json_upload))
       IN  IF json_config.exc # "none"
           THEN /\ SendError(Uncaught(json_config.exc))
                /\ UNCHANGED << config, content >>
           ELSE IF json_upload.notebook = None
           THEN /\ SendError(Uncaught("KeyError"))
                /\ UNCHANGED << config, content >>
           ELSE /\ config' = merge(c, json_config.val.val)
                /\ content' = Some(json_dumps(json_upload.notebook[1]))
                /\ pc' = "get_exporter"
                /\ UNCHANGED << headers, responses >>
    /\ UNCHANGED << route, format, method, download, body, storage, exporter, model, name, nb,
                    resource_dict, calls, output, resources, engine_fault >>

\* NbconvertPostHandler.post, up to its call of get_exporter
PostHandlerPost ==
    /\ pc = "start" /\ route = "post"
    /\ config' = AmbientConfig
    /\ pc' = "get_exporter"
    /\ UNCHANGED << route, format, method, download, body, storage, content, exporter, model,
                    name, nb, resource_dict, calls, output, resources, headers,
                    responses, engine_fault >>

\* where each handler goes on after get_exporter returned
AfterExporter == IF route = "file" THEN "contents_get" ELSE "get_json_body"

\* the call of get_exporter, first statement of call_nbconvert and of
\* NbconvertPostHandler.post
GetExporter ==
    /\ pc = "get_exporter"
    /\ \E imported \in {"ok", "ImportError"}, looked_up \in LookupOutcomes(format),
          constructed \in {"ok", "Exception"}, mime \in MimeTypes :
          LET r == get_exporter(imported, looked_up, constructed, config, mime)
          IN  /\ engine_fault' = r.fault
              /\ IF r.raised # None
                 THEN /\ SendError(r.raised[1])
                      /\ UNCHANGED exporter
                 ELSE /\ exporter' = r.exporter
                      /\ pc' = AfterExporter
                      /\ UNCHANGED << headers, responses >>
    /\ UNCHANGED << route, format, method, download, body, storage, config, content, model,
                    name, nb, resource_dict, calls, output, resources >>

\* faulty variant: the content argument is ignored
file_nb_stored(mdl, cnt) == mdl.content[1]

\* the document call_nbconvert converts
file_nb(mdl, cnt) == IF cnt = None THEN mdl.content[1] ELSE reads(cnt[1])

\* faulty variant: only directories are redirected
not_a_notebook_directory(mdl) == mdl.type = "directory"

\* model['type'] != 'notebook'
not_a_notebook(mdl) == mdl.type # "notebook"

\* call_nbconvert from the storage fetch to the resources dictionary
ContentsGet ==
    /\ pc = "contents_get"
    /\ IF storage = None
       THEN \* contents_manager.get raises: no such path
            /\ SendError(HTTPError(404))
            /\ UNCHANGED << model, name, nb, resource_dict >>
       ELSE \E has_os_path \in BOOLEAN :
             LET mdl == storage[1] IN
             /\ model' = Some(mdl)
             /\ name' = mdl.name
             /\ IF not_a_notebook(mdl)
                THEN /\ responses' = Append(responses, RedirectResponse)
                     /\ pc' = "done"
                     /\ UNCHANGED << nb, resource_dict, headers >>
                ELSE /\ nb' = Some(file_nb(mdl, content))
                     /\ headers' = set_header(headers, "LastModified", mdl.last_modified)
                     /\ resource_dict' = Some(
                            [metadata |->
                                [name |-> nb_title(mdl.name),
                                 modified_date |-> strftime(mdl.last_modified),
                                 path |-> IF has_os_path THEN Some("ext_resources_dir") ELSE None],
                             config_dir |-> "config_dir",
                             output_files_dir |-> nb_title(mdl.name) \o << "_", "f", "i", "l", "e", "s" >>])
                     /\ pc' = "convert"
                     /\ UNCHANGED responses
    /\ UNCHANGED << route, format, method, download, body, storage, config, content, exporter,
                    calls, output, resources, engine_fault >>

\* NbconvertPostHandler.post from get_json_body to the resources dictionary
GetJsonBody ==
    /\ pc = "get_json_body"
    /\ LET mdl == body[1]
           nm == get(mdl.name, DefaultName)
       IN  /\ name' = nm
           /\ IF mdl.content = None
              THEN /\ SendError(Uncaught("KeyError"))
                   /\ UNCHANGED << nb, resource_dict >>
              ELSE /\ nb' = Some(from_dict(mdl.content[1]))
                   /\ resource_dict' = Some(
                          [metadata |-> [name |-> post_title(nm)],
                           config_dir |-> "config_dir"])
                   /\ pc' = "convert"
                   /\ UNCHANGED << headers, responses >>
    /\ UNCHANGED << route, format, method, download, body, storage, config, content, exporter,
                    model, calls, output, resources, engine_fault >>

\* exporter.from_notebook_node(nb, resources=...) inside its try block
Convert ==
    /\ pc = "convert"
    /\ calls' = Append(calls, [nb |-> nb[1], resources |-> resource_dict[1]])
    /\ \/ /\ engine_fault' = << "convert", "Exception" >>
          /\ SendError(HTTPError(500))
          /\ UNCHANGED << output, resources >>
       \/ \E out \in Payloads, ext \in OutputExtensions :
          \E outs \in OutputsOptions(splitext(name)[1] \o ext) :
             /\ output' = Some(out)
             /\ resources' = Some([output_extension |-> ext, outputs |-> outs])
             /\ pc' = "respond"
             /\ UNCHANGED << headers, responses, engine_fault >>
    /\ UNCHANGED << route, format, method, download, body, storage, config, content, exporter,
                    model, name, nb, resource_dict >>

\* faulty variant: the argument is compared without lower()
force_download_exact(arg) == get(arg, "false") = "true"

\* self.get_argument('download', 'false').lower() == 'true'
force_download(arg) == lower(get(arg, "false")) = "true"

\* call_nbconvert after the conversion
RespondFile ==
    /\ pc = "respond" /\ route = "file"
    /\ LET z == respond_zip(headers, responses, name, output[1], resources[1])
       IN  IF z.ret
           THEN /\ headers' = z.headers
                /\ responses' = z.responses
           ELSE LET filename == splitext(name)[1] \o resources[1].output_extension
                    h1 == IF force_download(download)
                          THEN set_attachment_header(z.headers, filename)
                          ELSE z.headers
                IN  /\ headers' = set_mimetype(h1, exporter[1])
                    /\ responses' = Append(z.responses, finish("raw", output[1]))
    /\ pc' = "done"
    /\ UNCHANGED << route, format, method, download, body, storage, config, content, exporter,
                    model, name, nb, resource_dict, calls, output, resources,
                    engine_fault >>

\* NbconvertPostHandler.post after the conversion
RespondPost ==
    /\ pc = "respond" /\ route = "post"
    /\ LET z == respond_zip(headers, responses, name, output[1], resources[1])
       IN  IF z.ret
           THEN /\ headers' = z.headers
                /\ responses' = z.responses
           ELSE /\ headers' = set_mimetype(z.headers, exporter[1])
                /\ responses' = Append(z.responses, finish("raw", output[1]))
    /\ pc' = "done"
    /\ UNCHANGED << route, format, method, download, body, storage, config, content, exporter,
                    model, name, nb, resource_dict, calls, output, resources,
                    engine_fault >>

Next ==
    \/ FileHandlerGet
    \/ FileHandlerPost
    \/ PostHandlerPost
    \/ GetExporter
    \/ ContentsGet
    \/ GetJsonBody
    \/ Convert
    \/ RespondFile
    \/ RespondPost

Spec == Init /\ [][Next]_vars


---------------------------------------------------------------------------
(* Properties *)

Done == pc = "done"
ContentTypeZip == Some([mime |-> "application/zip", charset |-> ""])
Converted == resources # None
HasOutputs == Converted /\ resources[1].outputs # None
                        /\ DOMAIN resources[1].outputs[1] # {}
\* <name-without-extension><output_extension>
PrimaryName == splitext(name)[1] \o resources[1].output_extension

\* C1: a request produces at most one response, and a finished request exactly
\* one: an error, a redirect, a raw body or a zip body; no response exists
\* before the handler is through, and a redirect is never followed (or
\* preceded) by a conversion
C1_AtMostOneResponse ==
    /\ Len(responses) <= 1
    /\ Done <=> Len(responses) = 1
    /\ \A i \in 1..Len(responses) :
          /\ responses[i].kind \in {"error", "redirect", "raw", "zip"}
          /\ responses[i].kind = "redirect" => calls = << >> /\ output = None
          /\ responses[i].kind \in {"raw", "zip"} => Len(calls) = 1

\* C1 witness: a request answered with a zip
C1_Witness == Done /\ Len(responses) = 1 /\ responses[1].kind = "zip"

\* the request body is what the route documents: a notebook document, and
\* for the path route a config that is absent or a JSON string of an object
WellFormedBody ==
    \/ method = "GET"
    \/ /\ route = "file" /\ method = "POST"
       /\ body[1].notebook # None
       /\ body[1].config \in {None, Some(JsonStr("{}")), Some(JsonStr("{\"o\": 1}"))}
    \/ /\ route = "post"
       /\ body[1].content # None

\* C2: with nbconvert importable, a request for an unregistered format ends
\* with HTTP 404 on every route (stated for the bodies the routes document)
C2_UnregisteredFormat404 ==
    (Done /\ format \notin Registered /\ WellFormedBody
          /\ ~(engine_fault # << >> /\ engine_fault[1] = "import"))
    => responses[1].kind = "error" /\ responses[1].status = 404

\* C3: an exception the conversion engine raised (lookup, construction or
\* conversion) is answered with a web.HTTPError of status 404 or 500 raised
\* by the handler code; it never leaves the handler as itself
C3_EngineExceptionsCaught ==
    (Done /\ engine_fault # << >>)
    => /\ responses[1].kind = "error"
       /\ responses[1].exc = "HTTPError"
       /\ responses[1].status \in {404, 500}

NonNotebookPath == route = "file" /\ storage # None /\ storage[1].type # "notebook"

\* C4 as claimed: a GET of a path that holds no notebook ends in a redirect,
\* whether the format is registered or not (the lookup answers or says
\* KeyError) and whatever the construction of the exporter does
C4_NonNotebookAlwaysRedirects ==
    (Done /\ NonNotebookPath /\ method = "GET"
          /\ engine_fault \in {<< >>, << "lookup", "KeyError" >>, << "construct", "Exception" >>})
    => responses[1].kind = "redirect" /\ calls = << >>

\* C4 as amended: on the path route (GET and POST), once get_exporter has
\* returned an exporter, a path that holds no notebook ends in a redirect,
\* never in an error, and nothing is converted; a GET for which get_exporter
\* raised ends in that error instead (404 when the lookup said KeyError, 500
\* otherwise)
C4_NonNotebookRedirectsAfterExporter ==
    (Done /\ NonNotebookPath)
    => /\ calls = << >>
       /\ exporter # None => responses[1].kind = "redirect"
       /\ (exporter = None /\ method = "GET")
             => /\ responses[1].kind = "error"
                /\ responses[1].status =
                      (IF engine_fault = << "lookup", "KeyError" >> THEN 404 ELSE 500)

\* C4 witness: a POST for a non-notebook path was redirected
C4_Witness ==
    /\ Done /\ NonNotebookPath /\ method = "POST"
    /\ responses[1].kind = "redirect"

\* C5: with at least one entry in outputs the body is a zip of exactly
\* len(outputs)+1 entries: the primary payload under PrimaryName, and every
\* outputs key with its bytes, also when a key equals PrimaryName
C5_ZipEntries ==
    (Done /\ HasOutputs)
    => /\ responses[1].kind = "zip"
       /\ responses[1].body.type = "zip"
       /\ LET fl == responses[1].body.filelist
              outs == resources[1].outputs[1]
          IN  /\ Len(fl) = Cardinality(DOMAIN outs) + 1
              /\ \E i \in 1..Len(fl) :
                    /\ fl[i] = [name |-> PrimaryName,
                                data |-> [type |-> "bytes", val |-> output[1].val]]
                    /\ \A k \in DOMAIN outs :
                          \E j \in (1..Len(fl)) \ {i} :
                              fl[j] = [name |-> k, data |-> outs[k]]

\* C5 witness: a zip was served for outputs that hold the primary entry's name
C5_Witness ==
    /\ Done /\ HasOutputs /\ responses[1].kind = "zip"
    /\ PrimaryName \in DOMAIN resources[1].outputs[1]
    /\ Cardinality(DOMAIN resources[1].outputs[1]) = 2

\* C6: with outputs missing or empty, respond_zip returns False and touches
\* neither headers nor response; the response is the raw payload and its
\* Content-Type is not application/zip
C6_NoOutputsNoZip ==
    (Converted /\ ~HasOutputs)
    => /\ pc = "respond" =>
             respond_zip(headers, responses, name, output[1], resources[1])
               = [ret |-> FALSE, headers |-> headers, responses |-> responses]
       /\ Done => /\ responses[1].kind = "raw"
                  /\ responses[1].body = output[1]
                  /\ headers.ContentType # ContentTypeZip
                  /\ headers.ContentType # None => headers.ContentType[1].mime # "application/zip"

\* C6 witness: a raw response for an empty (present) outputs mapping
C6_Witness ==
    /\ Done /\ Converted /\ resources[1].outputs # None
    /\ DOMAIN resources[1].outputs[1] = {}
    /\ responses[1].kind = "raw"

DownloadTrue == download # None /\ download[1] \in {"true", "True", "TRUE"}
Attachment == Some([type |-> "attachment", filename |-> PrimaryName])

\* C7 as claimed: on every raw success response, of either route, download =
\* true sets the attachment disposition and anything else leaves it unset
C7_DownloadEitherRoute ==
    (Done /\ responses[1].kind = "raw")
    => headers.ContentDisposition = (IF DownloadTrue THEN Attachment ELSE None)

\* C7 as amended: that holds on the path route (GET and POST); on the
\* submit-by-body route a raw response never has a Content-Disposition
C7_DownloadPathRoute ==
    (Done /\ responses[1].kind = "raw")
    => headers.ContentDisposition =
          (IF route = "file" /\ DownloadTrue THEN Attachment ELSE None)

\* C7 witness: a raw response of the path route with download=True
C7_Witness ==
    /\ Done /\ route = "file" /\ responses[1].kind = "raw" /\ DownloadTrue
    /\ headers.ContentDisposition = Attachment

\* the supplied name with its last extension stripped: up to the last dot,
\* and all of it when it has no dot
StripLastExtension(nm) ==
    IF \E i \in 1..Len(nm) : nm[i] = "."
    THEN SubSeq(nm, 1, Max({ i \in 1..Len(nm) : nm[i] = "." }) - 1)
    ELSE nm

\* C8: on the submit-by-body route the metadata name handed to the exporter is
\* the supplied name (or the default name) with its last extension stripped
C8_PostTitle ==
    (route = "post" /\ calls # << >>)
    => calls[1].resources.metadata.name
         = StripLastExtension(get(body[1].name, DefaultName))

\* C9: a POST with a path whose body has a notebook and no config is
\* converted with the ambient configuration: it reaches call_nbconvert with
\* self.config unchanged and the inline notebook as content
C9_ConfigOptional ==
    (Done /\ route = "file" /\ method = "POST"
          /\ body[1].notebook # None /\ body[1].config = None)
    => /\ config = AmbientConfig
       /\ content # None
       /\ responses[1].exc \in {"none", "HTTPError"}

\* C10: on the path route the document handed to the exporter is the inline
\* notebook of the body on POST (read back as nbformat 4) and the stored
\* content on GET; on both, the title, the modification date, the source
\* directory and the Last-Modified header come from the storage object
C10_DualSource ==
    (route = "file" /\ calls # << >>)
    => /\ Len(calls) = 1
       /\ method = "POST" =>
             /\ calls[1].nb.origin = "inline"
             /\ calls[1].nb = Notebook(body[1].notebook[1].origin, 4)
       /\ method = "GET" => calls[1].nb = storage[1].content[1]
       /\ name = storage[1].name
       /\ calls[1].resources.metadata.name = splitext(storage[1].name)[1]
       /\ calls[1].resources.metadata.modified_date = strftime(storage[1].last_modified)
       /\ calls[1].resources.metadata.path \in {None, Some("ext_resources_dir")}
       /\ (Done /\ responses[1].kind # "error")
             => headers.LastModified = Some(storage[1].last_modified)

\* C10 witness: a POST whose inline notebook was converted under the stored
\* notebook's name
C10_Witness ==
    /\ route = "file" /\ method = "POST" /\ Len(calls) = 1
    /\ calls[1].nb.origin = "inline"
    /\ storage[1].content[1].origin = "stored"
    /\ Done /\ responses[1].kind = "raw"

=============================================================================
